---- MODULE Spec2Model ----
(***************************************************************************)
(* Sensor dashboard (dashboard-2.py, dashboard-3.py): the module-level     *)
(* startup code, read_serial_data, update_dashboard and download_csv, with *)
(* the serial device, the CSV file, the wall clock and the browser that    *)
(* drives the Dash callbacks as the environment.                           *)
(*                                                                         *)
(* Numbers: a float is modelled as an integer number of hundredths         *)
(* (23.5 is 2350).  Time: the wall clock counts ticks of 1/SubSec second;  *)
(* a formatted timestamp carries whole seconds only.                       *)
(***************************************************************************)
EXTENDS Integers, Sequences, FiniteSets, TLC

\* ------------------------------------------------------------------ bounds
\* invocation slots of update_dashboard that may be in flight at once
MaxCalls == 2
\* invocations of update_dashboard over a run
MaxInvocations == 2
\* lines the device sends over a run
MaxSent == 2
\* advances of the wall clock over a run
MaxAdvances == 1
\* clock ticks per second (sub-second resolution of the wall clock)
SubSec == 2

\* --------------------------------------------------------- program constants
TempThreshold == 35
HumThreshold == 80
SimTempLow == 20
SimTempHigh == 30
SimHumLow == 40
SimHumHigh == 60
\* hundredths per unit: round(..., 2) and the two decimals of the device lines
Scale == 100

\* time-filter dropdown values
TimeFilters == {"5", "10", "30", "all"}
LiveModes == {"on", "off"}

\* int(selected_range)
IntOf(selected_range) ==
  CASE selected_range = "5" -> 5
    [] selected_range = "10" -> 10
    [] selected_range = "30" -> 30

\* ------------------------------------------------------------- environment
Digits == {"0", "1", "2", "3", "4", "5", "6", "7", "8", "9"}
DigitVal == ("0" :> 0) @@ ("1" :> 1) @@ ("2" :> 2) @@ ("3" :> 3) @@ ("4" :> 4)
            @@ ("5" :> 5) @@ ("6" :> 6) @@ ("7" :> 7) @@ ("8" :> 8) @@ ("9" :> 9)

\* the lines the device may send (each a sequence of characters)
DeviceLines ==
  { <<"3", "6", " ", "9", "0">>,                     \* "36 90"
    <<"3", "5", ".", "0", " ", "8", "0", ".", "5">>,  \* "35.0 80.5"
    <<"x", "7">> }                                   \* "x7"

\* the clock at startup, in ticks: the middle of a second
StartClock == 1

\* wall-clock steps, in ticks: a tick, five minutes, thirty-one minutes
ShortStep == 1
LongSteps == {5 * 60 * SubSec, 31 * 60 * SubSec}
ClockSteps == {ShortStep} \cup LongSteps

\* mutant of SimReadings: the temperature is drawn up to ten degrees higher
SimReadingsHot ==
  { <<SimTempLow * Scale, SimHumLow * Scale>>,
    <<(SimTempHigh + 10) * Scale, SimHumHigh * Scale>> }

\* readings round(random.uniform(..), 2) may produce, in hundredths: the two
\* ends of the ranges
SimReadings ==
  { <<SimTempLow * Scale, SimHumLow * Scale>>,
    <<SimTempHigh * Scale, SimHumHigh * Scale>> }

\* --------------------------------------------------------------- the regex
\* re.findall(r"[-+]?\d*\.\d+|\d+", line): the matches, left to right.

\* number of digits of s from position i on
RECURSIVE DigitRun(_, _)
DigitRun(s, i) ==
  IF i <= Len(s) /\ s[i] \in Digits THEN 1 + DigitRun(s, i + 1) ELSE 0

\* length of the match of [-+]?\d*\.\d+ at position i, 0 when it does not match
DecimalMatch(s, i) ==
  LET sg == IF i <= Len(s) /\ s[i] \in {"-", "+"} THEN 1 ELSE 0
      d1 == DigitRun(s, i + sg)
      dot == i + sg + d1
      d2 == IF dot <= Len(s) /\ s[dot] = "." THEN DigitRun(s, dot + 1) ELSE 0
  IN IF d2 > 0 THEN sg + d1 + 1 + d2 ELSE 0

\* length of the match of the whole pattern at i: the first alternative is
\* tried first, then \d+
MatchAt(s, i) ==
  IF DecimalMatch(s, i) > 0 THEN DecimalMatch(s, i) ELSE DigitRun(s, i)

RECURSIVE FindAllFrom(_, _)
FindAllFrom(s, i) ==
  IF i > Len(s) THEN << >>
  ELSE LET n == MatchAt(s, i)
       IN IF n > 0 THEN <<SubSeq(s, i, i + n - 1)>> \o FindAllFrom(s, i + n)
          ELSE FindAllFrom(s, i + 1)

FindAll(line) == FindAllFrom(line, 1)

\* value of a run of digits
RECURSIVE DigitsValue(_)
DigitsValue(ds) ==
  IF ds = << >> THEN 0
  ELSE 10 * DigitsValue(SubSeq(ds, 1, Len(ds) - 1)) + DigitVal[ds[Len(ds)]]

RECURSIVE Pow10(_)
Pow10(n) == IF n = 0 THEN 1 ELSE 10 * Pow10(n - 1)

\* float(token), in hundredths, of a token the pattern matched
FloatOf(tok) ==
  LET sg == IF tok[1] \in {"-", "+"} THEN 1 ELSE 0
      body == SubSeq(tok, sg + 1, Len(tok))
      d1 == DigitRun(body, 1)
      ip == DigitsValue(SubSeq(body, 1, d1))
      fr == IF d1 < Len(body) THEN SubSeq(body, d1 + 2, Len(body)) ELSE << >>
      fv == (DigitsValue(fr) * Scale) \div Pow10(Len(fr))
      mag == ip * Scale + fv
  IN IF tok[1] = "-" THEN 0 - mag ELSE mag

\* ------------------------------------------------------------ the CSV file
\* A line of the file.  The header is "Timestamp,Temperature,Humidity"; a
\* row holds three cells of text: stamp is <<seconds>> for a well-formed
\* "YYYY-MM-DD HH:MM:SS" and << >> for text that is no date; a number cell
\* is <<sign, integer part, hundredths>>.
Header == [kind |-> "header", stamp |-> << >>, temp |-> << >>, hum |-> << >>]

\* time.strftime("%Y-%m-%d %H:%M:%S"): the clock cut to whole seconds
StrfTime(t) == <<t \div SubSec>>

\* f"{x}" of a float
FormatFloat(v) ==
  LET mag == IF v < 0 THEN 0 - v ELSE v
  IN <<IF v < 0 THEN "-" ELSE "", mag \div Scale, mag % Scale>>

\* mutant of FormatRow: the two values are written in the other order
FormatRowSwapped(timestamp, temp, hum) ==
  [kind |-> "row", stamp |-> timestamp, temp |-> FormatFloat(hum),
   hum |-> FormatFloat(temp)]

\* f"{timestamp},{temp},{hum}\n"
FormatRow(timestamp, temp, hum) ==
  [kind |-> "row", stamp |-> timestamp, temp |-> FormatFloat(temp),
   hum |-> FormatFloat(hum)]

\* pandas' float parser on a number cell
ParseFloat(cell) ==
  LET mag == cell[2] * Scale + cell[3]
  IN IF cell[1] = "-" THEN 0 - mag ELSE mag

\* pd.to_datetime(..., errors='coerce'): <<ticks>>, or << >> for NaT
ToDatetime(stamp) ==
  IF stamp = << >> THEN << >> ELSE <<stamp[1] * SubSec>>

\* pd.read_csv + the Timestamp conversion: the data rows of the file, typed
ReadRow(l) ==
  [Timestamp |-> ToDatetime(l.stamp), Temperature |-> ParseFloat(l.temp),
   Humidity |-> ParseFloat(l.hum)]

ReadCsv(lines) == [k \in 1..(Len(lines) - 1) |-> ReadRow(lines[k + 1])]

\* read_csv takes the first line of the file as the column names: the frame
\* has a "Timestamp" column only when that line is the header
HasTimestampColumn(lines) == lines[1].kind = "header"

\* df[df["Timestamp"] >= time_limit]: comparing NaT is False
InWindow(r, time_limit) == r.Timestamp # << >> /\ r.Timestamp[1] >= time_limit

\* mutant of TimeLimit: the range is taken in seconds (unit='s')
TimeLimitSeconds(now, selected_range) == now - IntOf(selected_range) * SubSec

\* pd.Timestamp.now() - pd.to_timedelta(int(selected_range), unit='m')
TimeLimit(now, selected_range) == now - IntOf(selected_range) * 60 * SubSec

WindowOf(rows, selected_range, now) ==
  IF selected_range # "all"
  THEN SelectSeq(rows, LAMBDA r : InWindow(r, TimeLimit(now, selected_range)))
  ELSE rows

\* ---------------------------------------------------------- the statistics
RECURSIVE SumSeq(_)
SumSeq(q) == IF q = << >> THEN 0 ELSE q[1] + SumSeq(Tail(q))

RECURSIVE MaxSeq(_)
MaxSeq(q) ==
  IF Len(q) = 1 THEN q[1]
  ELSE LET m == MaxSeq(Tail(q)) IN IF q[1] > m THEN q[1] ELSE m

RECURSIVE MinSeq(_)
MinSeq(q) ==
  IF Len(q) = 1 THEN q[1]
  ELSE LET m == MinSeq(Tail(q)) IN IF q[1] < m THEN q[1] ELSE m

\* .mean() shown with :.2f: the mean to the nearest hundredth
MeanSeq(q) == (2 * SumSeq(q) + Len(q)) \div (2 * Len(q))

Column(df, name) == [k \in 1..Len(df) |-> df[k][name]]

\* the text of a statistic: "--", a number, or nothing yet
Dashes == <<"--", 0>>
Num(v) == <<"num", v>>
Unset == <<"", 0>>

NoAlert == ""
TempAlert == "WARNING: High Temperature! (> 35C)"
HumAlert == "WARNING: High Humidity! (> 80%)"

\* mutant of AlertOf: humidity is tested first
AlertOfHumidityFirst(latest_temp, latest_hum) ==
  IF latest_hum > HumThreshold * Scale THEN HumAlert
  ELSE IF latest_temp > TempThreshold * Scale THEN TempAlert
  ELSE NoAlert

\* the alert of latest_temp, latest_hum
AlertOf(latest_temp, latest_hum) ==
  IF latest_temp > TempThreshold * Scale THEN TempAlert
  ELSE IF latest_hum > HumThreshold * Scale THEN HumAlert
  ELSE NoAlert

\* the return value for df.empty
EmptyPayload ==
  [figure |-> << >>, current_temp |-> Dashes, current_hum |-> Dashes,
   avg_temp |-> Dashes, avg_hum |-> Dashes, max_temp |-> Dashes,
   min_temp |-> Dashes, alert |-> NoAlert]

\* what the page shows before any callback has returned
BlankPayload ==
  [figure |-> << >>, current_temp |-> Unset, current_hum |-> Unset,
   avg_temp |-> Unset, avg_hum |-> Unset, max_temp |-> Unset,
   min_temp |-> Unset, alert |-> NoAlert]

\* the return value for a frame with rows
StatsPayload(df) ==
  LET latest_temp == df[Len(df)].Temperature
      latest_hum == df[Len(df)].Humidity
  IN [figure |-> df,
      current_temp |-> Num(latest_temp),
      current_hum |-> Num(latest_hum),
      avg_temp |-> Num(MeanSeq(Column(df, "Temperature"))),
      avg_hum |-> Num(MeanSeq(Column(df, "Humidity"))),
      max_temp |-> Num(MaxSeq(Column(df, "Temperature"))),
      min_temp |-> Num(MinSeq(Column(df, "Temperature"))),
      alert |-> AlertOf(latest_temp, latest_hum)]

\* mutant of Render: the frame is tested for emptiness before it is filtered
RenderEmptyTestFirst(lines, selected_range, now) ==
  IF Len(lines) > 0 /\ ~HasTimestampColumn(lines)
  THEN [result |-> "error", payload |-> EmptyPayload]
  ELSE LET all == IF Len(lines) > 0 THEN ReadCsv(lines) ELSE << >>
           df == WindowOf(all, selected_range, now)
       IN [result |-> "payload",
           payload |-> IF all = << >> THEN EmptyPayload
                       ELSE IF df = << >>
                       THEN [EmptyPayload EXCEPT
                               !.alert = AlertOf(all[Len(all)].Temperature,
                                                 all[Len(all)].Humidity)]
                       ELSE StatsPayload(df)]

\* mutant of Render: the statistics are taken over the whole file, the chart
\* over the window
RenderStatsOverAll(lines, selected_range, now) ==
  IF Len(lines) > 0 /\ ~HasTimestampColumn(lines)
  THEN [result |-> "error", payload |-> EmptyPayload]
  ELSE LET all == IF Len(lines) > 0 THEN ReadCsv(lines) ELSE << >>
           df == WindowOf(all, selected_range, now)
       IN [result |-> "payload",
           payload |-> IF df = << >> THEN EmptyPayload
                       ELSE [StatsPayload(all) EXCEPT !.figure = df]]

\* update_dashboard from the read-back on, for the file content `lines`
\* (absent file: << >>), the filter and the time of the call
Render(lines, selected_range, now) ==
  IF Len(lines) > 0 /\ ~HasTimestampColumn(lines)
  THEN [result |-> "error", payload |-> EmptyPayload]
  ELSE LET df == IF Len(lines) > 0
                 THEN WindowOf(ReadCsv(lines), selected_range, now)
                 ELSE << >>
       IN [result |-> "payload",
           payload |-> IF df = << >> THEN EmptyPayload ELSE StatsPayload(df)]

\* ------------------------------------------------------------------- state
VARIABLES
  script,       \* which program runs: 2 (dashboard-2.py) or 3 (dashboard-3.py)
  RAILWAY,      \* the RAILWAY environment variable is set
  port_opens,   \* serial.Serial(SERIAL_PORT, ...) succeeds
  main,         \* "boot", "serving" or "exited"
  ser,          \* "unset", "open" or "None"
  csv,          \* CSV_FILE: [exists, lines]
  in_waiting,   \* the lines buffered on the serial port
  clock,        \* the wall clock, in ticks
  live_mode,    \* value of the live-mode radio items
  time_filter,  \* value of the time-filter dropdown
  n_intervals,  \* firings of interval-component
  shown,        \* the outputs the page displays
  calls,        \* the invocations of update_dashboard in flight, by slot
  returned,     \* the invocation that returned last
  sent,         \* lines sent by the device so far
  advances,     \* clock advances so far
  invocations,  \* invocations of update_dashboard so far
  appends,      \* history: the readings written to the file, in order
  arrived       \* history: for each line waiting, the live-mode value on
                \* the page when the device sent it

vars == <<script, RAILWAY, port_opens, main, ser, csv, in_waiting, clock,
          live_mode, time_filter, n_intervals, shown, calls, returned, sent,
          advances, invocations, appends, arrived>>

env == <<script, RAILWAY, port_opens>>
counters == <<sent, advances, invocations>>
history == <<appends, arrived>>

\* a slot no invocation has used yet
IdleCall ==
  [pc |-> "idle", trigger |-> "", selected_range |-> "all", live_mode |-> "on",
   reading |-> << >>, timestamp |-> << >>, sent_in |-> "", consumed |-> 0,
   appended |-> 0, at |-> 0, result |-> "", payload |-> BlankPayload,
   df_lines |-> << >>, now |-> 0]

\* a row that was in the file before the program started: no date in its
\* Timestamp cell, values above both thresholds
OldRow ==
  [kind |-> "row", stamp |-> << >>, temp |-> FormatFloat(36 * Scale),
   hum |-> FormatFloat(90 * Scale)]

\* the file before startup: absent, zero bytes, header only, header and a row
PreFiles ==
  { [exists |-> FALSE, lines |-> << >>],
    [exists |-> TRUE, lines |-> << >>],
    [exists |-> TRUE, lines |-> <<Header>>],
    [exists |-> TRUE, lines |-> <<Header, OldRow>>] }

Init ==
  /\ script \in {2, 3}
  /\ RAILWAY \in BOOLEAN
  /\ port_opens \in BOOLEAN
  /\ RAILWAY => ~port_opens
  /\ main = "boot"
  /\ ser = "unset"
  /\ csv \in PreFiles
  /\ in_waiting = << >>
  /\ clock = StartClock
  /\ live_mode = "on"
  /\ time_filter = "all"
  /\ n_intervals = 0
  /\ shown = BlankPayload
  /\ calls = [i \in 1..MaxCalls |-> IdleCall]
  /\ returned = IdleCall
  /\ sent = 0
  /\ advances = 0
  /\ invocations = 0
  /\ appends = << >>
  /\ arrived = << >>

\* ----------------------------------------------------------------- startup
\* mutant of EnsureCsv: the header is written whether or not the file exists
EnsureCsvOverwrite(f) == [exists |-> TRUE, lines |-> <<Header>>]

\* "Ensure CSV file exists"
EnsureCsv(f) ==
  IF ~f.exists THEN [exists |-> TRUE, lines |-> <<Header>>] ELSE f

\* mutant of OpenSerial3: the failure to open the port leaves a handle
OpenSerial3KeepsHandle == IF ~RAILWAY THEN "open" ELSE "None"

\* the handle dashboard-3.py ends up with
OpenSerial3 ==
  IF ~RAILWAY THEN (IF port_opens THEN "open" ELSE "None") ELSE "None"

\* dashboard-3.py, module level
Startup3 ==
  /\ script = 3
  /\ main = "boot"
  /\ ser' = OpenSerial3
  /\ csv' = EnsureCsv(csv)
  /\ main' = "serving"
  /\ UNCHANGED <<env, in_waiting, clock, live_mode, time_filter, n_intervals,
                 shown, calls, returned, counters, history>>

\* dashboard-2.py, module level: exit(1) when the port cannot be opened
Startup2 ==
  /\ script = 2
  /\ main = "boot"
  /\ IF port_opens
     THEN /\ ser' = "open"
          /\ csv' = EnsureCsv(csv)
          /\ main' = "serving"
     ELSE /\ main' = "exited"
          /\ UNCHANGED <<ser, csv>>
  /\ UNCHANGED <<env, in_waiting, clock, live_mode, time_filter, n_intervals,
                 shown, calls, returned, counters, history>>

\* ------------------------------------------------------------- environment
\* the device writes a line to the port
DeviceSend(line) ==
  /\ ser = "open"
  /\ sent < MaxSent
  /\ in_waiting' = Append(in_waiting, line)
  /\ arrived' = Append(arrived, live_mode)
  /\ sent' = sent + 1
  /\ UNCHANGED <<env, main, ser, csv, clock, live_mode, time_filter,
                 n_intervals, shown, calls, returned, advances,
                 invocations, appends>>

\* time passes.  An invocation of update_dashboard lasts well under five
\* minutes (the interval fires every two seconds, readline times out after
\* one): minutes pass only between invocations, ticks at any moment.
ClockAdvance(d) ==
  /\ main = "serving"
  /\ advances < MaxAdvances
  /\ d \in LongSteps => \A i \in 1..MaxCalls : calls[i].pc = "idle"
  /\ clock' = clock + d
  /\ advances' = advances + 1
  /\ UNCHANGED <<env, main, ser, csv, in_waiting, live_mode, time_filter,
                 n_intervals, shown, calls, returned, sent, invocations,
                 history>>

\* ------------------------------------------------- the browser: the inputs
FreeSlots == {i \in 1..MaxCalls : calls[i].pc = "idle"}

\* Dash calls update_dashboard(n, selected_range, live_mode) when an Input
\* changes; the call takes the lowest free slot
Invoke(trigger, selected_range, mode) ==
  /\ main = "serving"
  /\ invocations < MaxInvocations
  /\ FreeSlots # {}
  /\ LET i == CHOOSE k \in FreeSlots : \A j \in FreeSlots : k <= j
     IN calls' = [calls EXCEPT ![i] =
                    [IdleCall EXCEPT !.pc = "start", !.trigger = trigger,
                                     !.selected_range = selected_range,
                                     !.live_mode = mode]]
  /\ invocations' = invocations + 1

\* interval-component fires
TimerFire ==
  /\ Invoke("interval", time_filter, live_mode)
  /\ n_intervals' = n_intervals + 1
  /\ UNCHANGED <<env, main, ser, csv, in_waiting, clock, live_mode,
                 time_filter, shown, returned, sent, advances, history>>

\* the user picks another time range
SetTimeFilter(v) ==
  /\ v # time_filter
  /\ time_filter' = v
  /\ Invoke("time-filter", v, live_mode)
  /\ UNCHANGED <<env, main, ser, csv, in_waiting, clock, live_mode,
                 n_intervals, shown, returned, sent, advances, history>>

\* the user switches live mode
SetLiveMode(v) ==
  /\ v # live_mode
  /\ live_mode' = v
  /\ Invoke("live-mode", time_filter, v)
  /\ UNCHANGED <<env, main, ser, csv, in_waiting, clock, time_filter,
                 n_intervals, shown, returned, sent, advances, history>>

\* download_csv (dashboard-2.py only): dcc.send_file(CSV_FILE) sends the file
\* to the browser and changes nothing in the program
Download ==
  /\ script = 2
  /\ main = "serving"
  /\ UNCHANGED vars

\* ------------------------------------------------------- update_dashboard
\* mutant of ReturnPaused: the paused call returns the empty outputs instead
\* of no_update
ReturnPausedEmpty(i) ==
  /\ calls[i].pc = "start"
  /\ calls[i].live_mode = "off"
  /\ returned' = [calls[i] EXCEPT !.pc = "done", !.result = "payload",
                                  !.payload = EmptyPayload]
  /\ shown' = EmptyPayload
  /\ calls' = [calls EXCEPT ![i] = IdleCall]
  /\ UNCHANGED <<env, main, ser, csv, in_waiting, clock, live_mode,
                 time_filter, n_intervals, counters, history>>

\* if live_mode == "off": return dash.no_update
ReturnPaused(i) ==
  /\ calls[i].pc = "start"
  /\ calls[i].live_mode = "off"
  /\ returned' = [calls[i] EXCEPT !.pc = "done", !.result = "no_update"]
  /\ calls' = [calls EXCEPT ![i] = IdleCall]
  /\ UNCHANGED <<env, main, ser, csv, in_waiting, clock, live_mode,
                 time_filter, n_intervals, shown, counters, history>>

\* read_serial_data, ser is None: the simulated reading and its timestamp
Simulate(i, temp, hum) ==
  /\ calls[i].pc = "start"
  /\ calls[i].live_mode # "off"
  /\ ser = "None"
  /\ calls' = [calls EXCEPT ![i].pc = "write", ![i].reading = <<temp, hum>>,
                            ![i].timestamp = StrfTime(clock)]
  /\ UNCHANGED <<env, main, ser, csv, in_waiting, clock, live_mode,
                 time_filter, n_intervals, shown, returned, counters, history>>

\* the reading of a line: << >> when it has fewer than two numbers.  (Every
\* token the pattern matches is a valid float; bytes that do not decode
\* raise ValueError, which the loop catches, so such a line is skipped like
\* a line without numbers.)
ParseLine(line) ==
  LET matches == FindAll(line)
  IN IF Len(matches) < 2 THEN << >>
     ELSE <<FloatOf(matches[1]), FloatOf(matches[2])>>

\* mutant of ReadLine: the whole buffer is read and the latest valid line kept
ReadLineLatest(i) ==
  /\ calls[i].pc \in {"start", "poll"}
  /\ calls[i].live_mode # "off"
  /\ ser = "open"
  /\ in_waiting # << >>
  /\ in_waiting' = << >>
  /\ arrived' = << >>
  /\ LET valid == SelectSeq(in_waiting, LAMBDA l : ParseLine(l) # << >>)
         r == IF valid = << >> THEN << >> ELSE ParseLine(valid[Len(valid)])
     IN calls' = [calls EXCEPT
                    ![i].consumed = @ + Len(in_waiting),
                    ![i].pc = IF r = << >> THEN "poll" ELSE "write",
                    ![i].reading = r,
                    ![i].timestamp = IF r = << >> THEN << >> ELSE StrfTime(clock),
                    ![i].sent_in = IF r = << >> THEN "" ELSE arrived[Len(arrived)]]
  /\ UNCHANGED <<env, main, ser, csv, clock, live_mode, time_filter,
                 n_intervals, shown, returned, counters, appends>>

\* read_serial_data, one turn of the loop with data waiting: readline, parse,
\* and either skip the line or stamp the reading
ReadLine(i) ==
  /\ calls[i].pc \in {"start", "poll"}
  /\ calls[i].live_mode # "off"
  /\ ser = "open"
  /\ in_waiting # << >>
  /\ in_waiting' = Tail(in_waiting)
  /\ arrived' = Tail(arrived)
  /\ LET r == ParseLine(Head(in_waiting))
     IN calls' = [calls EXCEPT
                    ![i].consumed = @ + 1,
                    ![i].pc = IF r = << >> THEN "poll" ELSE "write",
                    ![i].reading = r,
                    ![i].timestamp = IF r = << >> THEN << >> ELSE StrfTime(clock),
                    ![i].sent_in = IF r = << >> THEN "" ELSE Head(arrived)]
  /\ UNCHANGED <<env, main, ser, csv, clock, live_mode, time_filter,
                 n_intervals, shown, returned, counters, appends>>

\* read_serial_data, nothing waiting: return None, None
PollEmpty(i) ==
  /\ calls[i].pc \in {"start", "poll"}
  /\ calls[i].live_mode # "off"
  /\ ser = "open"
  /\ in_waiting = << >>
  /\ calls' = [calls EXCEPT ![i].pc = "readback", ![i].reading = << >>]
  /\ UNCHANGED <<env, main, ser, csv, in_waiting, clock, live_mode,
                 time_filter, n_intervals, shown, returned, counters, history>>

\* open(CSV_FILE, "a").write(row)
AppendRow(f, row) == [exists |-> TRUE, lines |-> Append(f.lines, row)]

\* mutant of WriteRow: the row is written but the loop goes on (no return)
WriteRowKeepsPolling(i) ==
  /\ calls[i].pc = "write"
  /\ csv' = AppendRow(csv, FormatRow(calls[i].timestamp, calls[i].reading[1],
                                     calls[i].reading[2]))
  /\ calls' = [calls EXCEPT ![i].pc = IF ser = "open" THEN "poll" ELSE "readback",
                            ![i].appended = @ + 1,
                            ![i].at = Len(csv.lines) + 1]
  /\ appends' = Append(appends, <<calls[i].timestamp, calls[i].reading[1],
                                  calls[i].reading[2], calls[i].sent_in>>)
  /\ UNCHANGED <<env, main, ser, in_waiting, clock, live_mode, time_filter,
                 n_intervals, shown, returned, counters, arrived>>

\* read_serial_data: the row is written and the reading returned
WriteRow(i) ==
  /\ calls[i].pc = "write"
  /\ csv' = AppendRow(csv, FormatRow(calls[i].timestamp, calls[i].reading[1],
                                     calls[i].reading[2]))
  /\ calls' = [calls EXCEPT ![i].pc = "readback", ![i].appended = @ + 1,
                            ![i].at = Len(csv.lines) + 1]
  /\ appends' = Append(appends, <<calls[i].timestamp, calls[i].reading[1],
                                  calls[i].reading[2], calls[i].sent_in>>)
  /\ UNCHANGED <<env, main, ser, in_waiting, clock, live_mode, time_filter,
                 n_intervals, shown, returned, counters, arrived>>

\* the file as update_dashboard reads it back: nothing when absent or empty
ReadBackLines(f) == IF f.exists /\ Len(f.lines) > 0 THEN f.lines ELSE << >>

\* mutant of ReadBack: the frame, less its undated rows, is saved over the file
ReadBackSavesFrame(i) ==
  /\ calls[i].pc = "readback"
  /\ LET lines == ReadBackLines(csv)
         r == Render(lines, calls[i].selected_range, clock)
     IN /\ returned' = [calls[i] EXCEPT !.pc = "done", !.result = r.result,
                                        !.payload = r.payload,
                                        !.df_lines = lines, !.now = clock]
        /\ calls' = [calls EXCEPT ![i] = IdleCall]
        /\ shown' = IF r.result = "payload" THEN r.payload ELSE shown
        /\ csv' = [exists |-> TRUE,
                   lines |-> <<Header>> \o
                             SelectSeq(lines, LAMBDA l :
                               l.kind = "row" /\ l.stamp # << >>)]
  /\ UNCHANGED <<env, main, ser, in_waiting, clock, live_mode,
                 time_filter, n_intervals, counters, history>>

\* update_dashboard from "Ensure CSV exists and is not empty" to the return;
\* the page shows what a call returns, and keeps what it shows when the
\* call raises
ReadBack(i) ==
  /\ calls[i].pc = "readback"
  /\ LET lines == ReadBackLines(csv)
         r == Render(lines, calls[i].selected_range, clock)
     IN /\ returned' = [calls[i] EXCEPT !.pc = "done", !.result = r.result,
                                        !.payload = r.payload,
                                        !.df_lines = lines, !.now = clock]
        /\ calls' = [calls EXCEPT ![i] = IdleCall]
        /\ shown' = IF r.result = "payload" THEN r.payload ELSE shown
  /\ UNCHANGED <<env, main, ser, csv, in_waiting, clock, live_mode,
                 time_filter, n_intervals, counters, history>>

\* ---------------------------------------------------------- specification
Next ==
  \/ Startup3
  \/ Startup2
  \/ \E line \in DeviceLines : DeviceSend(line)
  \/ \E d \in ClockSteps : ClockAdvance(d)
  \/ TimerFire
  \/ \E v \in TimeFilters : SetTimeFilter(v)
  \/ \E v \in LiveModes : SetLiveMode(v)
  \/ Download
  \/ \E i \in 1..MaxCalls : ReturnPaused(i)
  \/ \E i \in 1..MaxCalls : \E r \in SimReadings : Simulate(i, r[1], r[2])
  \/ \E i \in 1..MaxCalls : ReadLine(i)
  \/ \E i \in 1..MaxCalls : PollEmpty(i)
  \/ \E i \in 1..MaxCalls : WriteRow(i)
  \/ \E i \in 1..MaxCalls : ReadBack(i)

Spec == Init /\ [][Next]_vars

\* ------------------------------------------------------------------ claims
\* the invocations whose read_serial_data has returned: those at the
\* read-back, and the one that returned last if it ran live
AfterAcquire ==
  {calls[i] : i \in {k \in 1..MaxCalls : calls[k].pc = "readback"}}
    \cup (IF returned.pc = "done" /\ returned.live_mode # "off"
          THEN {returned} ELSE {})

\* the rows of the file the program wrote (a row it stamps carries a date)
RECURSIVE CountStamped(_)
CountStamped(lines) ==
  IF lines = << >> THEN 0
  ELSE (IF Head(lines).kind = "row" /\ Head(lines).stamp # << >> THEN 1 ELSE 0)
       + CountStamped(Tail(lines))

\* C1: an invocation of update_dashboard run live appends at most one row
\* to the file, whatever is buffered on the port and whichever source is
\* active: no invocation has appended more than one row, and the file never
\* holds more rows written by the program than there were invocations.
C1_AtMostOneAppendPerTick ==
  /\ \A i \in 1..MaxCalls : calls[i].appended <= 1
  /\ returned.appended <= 1
  /\ CountStamped(csv.lines) <= invocations

\* a live invocation on the serial source returned after one append while
\* a line was still buffered
C1_Witness ==
  /\ returned.pc = "done"
  /\ returned.live_mode = "on"
  /\ returned.appended = 1
  /\ ser = "open"
  /\ sent = MaxSent
  /\ returned.consumed = 1
  /\ in_waiting # << >>

\* the step in which an invocation called with live_mode "off" returns
PausedReturn(i) ==
  /\ calls[i].pc = "start"
  /\ calls[i].live_mode = "off"
  /\ calls'[i].pc = "idle"

\* C2: a tick handled with live_mode off is a no-op: it returns no_update
\* without reading from the port or writing the file, and the page keeps
\* showing what it showed.
C2_PausedTickIsNoOp ==
  /\ [](\A i \in 1..MaxCalls :
          calls[i].live_mode = "off" => calls[i].pc \in {"idle", "start"})
  /\ []((returned.pc = "done" /\ returned.live_mode = "off")
          => /\ returned.result = "no_update"
             /\ returned.consumed = 0
             /\ returned.appended = 0)
  /\ [][\A i \in 1..MaxCalls :
          PausedReturn(i) => /\ csv' = csv
                             /\ in_waiting' = in_waiting
                             /\ shown' = shown
                             /\ appends' = appends]_vars

\* a paused invocation returned while the page showed statistics and a line
\* was waiting on the port
C2_Witness ==
  /\ returned.pc = "done"
  /\ returned.live_mode = "off"
  /\ shown.figure # << >>
  /\ in_waiting # << >>

\* the rows of the file an invocation read back, and its window of them
RowsRead(c) == IF c.df_lines = << >> THEN << >> ELSE ReadCsv(c.df_lines)
SubsetOf(c) == WindowOf(RowsRead(c), c.selected_range, c.now)

\* v is the mean of q to the nearest hundredth
IsMean(v, q) == 2 * Len(q) * v - Len(q) <= 2 * SumSeq(q)
                /\ 2 * SumSeq(q) < 2 * Len(q) * v + Len(q)

\* C3: in every payload a live invocation returns, the chart series is the
\* window of the file as read back in that invocation, for its filter, and
\* current, average, maximum and minimum are those of that same series.
C3_StatsOverWindow ==
  (returned.pc = "done" /\ returned.result = "payload")
    => LET sub == SubsetOf(returned)
           p == returned.payload
           temps == Column(sub, "Temperature")
           hums == Column(sub, "Humidity")
       IN /\ p.figure = sub
          /\ returned.selected_range = "all" => sub = RowsRead(returned)
          /\ sub # << >> =>
               /\ p.current_temp = Num(temps[Len(sub)])
               /\ p.current_hum = Num(hums[Len(sub)])
               /\ p.max_temp[1] = "num" /\ p.min_temp[1] = "num"
               /\ \E k \in 1..Len(sub) : temps[k] = p.max_temp[2]
               /\ \A k \in 1..Len(sub) : temps[k] <= p.max_temp[2]
               /\ \E k \in 1..Len(sub) : temps[k] = p.min_temp[2]
               /\ \A k \in 1..Len(sub) : temps[k] >= p.min_temp[2]
               /\ p.avg_temp[1] = "num" /\ IsMean(p.avg_temp[2], temps)
               /\ p.avg_hum[1] = "num" /\ IsMean(p.avg_hum[2], hums)

\* a payload over a window that leaves out a row whose temperature is the
\* maximum of the file
C3_Witness ==
  /\ returned.pc = "done"
  /\ returned.result = "payload"
  /\ returned.selected_range # "all"
  /\ returned.payload.figure # << >>
  /\ Len(returned.payload.figure) < Len(RowsRead(returned))
  /\ returned.payload.max_temp[2] < MaxSeq(Column(RowsRead(returned), "Temperature"))

\* the rows of `rows` stamped no earlier than n minutes before `now`, in order
RECURSIVE Kept(_, _, _)
Kept(rows, n, now) ==
  IF Len(rows) = 0 THEN << >>
  ELSE (IF rows[1].Timestamp # << >>
           /\ rows[1].Timestamp[1] + n * 60 * SubSec >= now
        THEN <<rows[1]>> ELSE << >>)
       \o Kept(SubSeq(rows, 2, Len(rows)), n, now)

\* C4: the series of a returned payload is, for filter "5", "10" or "30",
\* exactly the rows of the file read back whose timestamp is not earlier than
\* that many minutes before the time of the call, in file order, rows without
\* a readable timestamp left out; for "all" it is every row, those included.
C4_WindowingCorrect ==
  (returned.pc = "done" /\ returned.result = "payload")
    => LET rows == RowsRead(returned)
           fig == returned.payload.figure
           f == returned.selected_range
       IN /\ f = "5" => fig = Kept(rows, 5, returned.now)
          /\ f = "10" => fig = Kept(rows, 10, returned.now)
          /\ f = "30" => fig = Kept(rows, 30, returned.now)
          /\ f = "all" => fig = rows

\* a windowed payload that keeps a row, leaves out an older dated row and
\* leaves out a row without a timestamp
C4_Witness ==
  /\ returned.pc = "done"
  /\ returned.result = "payload"
  /\ returned.selected_range = "10"
  /\ returned.payload.figure # << >>
  /\ \E k \in 1..Len(RowsRead(returned)) : RowsRead(returned)[k].Timestamp = << >>
  /\ \E k \in 1..Len(RowsRead(returned)) :
       /\ RowsRead(returned)[k].Timestamp # << >>
       /\ RowsRead(returned)[k].Timestamp[1] + 10 * 60 * SubSec < returned.now

\* C5: the alert of a returned payload depends on the last row of its series
\* only: the temperature alert when that row's temperature is above 35,
\* otherwise the humidity alert when its humidity is above 80, otherwise
\* none; an empty series carries no alert.
C5_AlertPriority ==
  (returned.pc = "done" /\ returned.result = "payload")
    => LET fig == returned.payload.figure
           alert == returned.payload.alert
       IN IF fig = << >> THEN alert = ""
          ELSE LET last == fig[Len(fig)]
               IN /\ last.Temperature > 35 * Scale => alert = TempAlert
                  /\ (last.Temperature <= 35 * Scale /\ last.Humidity > 80 * Scale)
                       => alert = HumAlert
                  /\ (last.Temperature <= 35 * Scale /\ last.Humidity <= 80 * Scale)
                       => alert = ""

\* both thresholds exceeded by the last row: the temperature alert
C5_Witness ==
  /\ returned.pc = "done"
  /\ returned.result = "payload"
  /\ returned.payload.figure # << >>
  /\ returned.payload.current_temp[2] > 35 * Scale
  /\ returned.payload.current_hum[2] > 80 * Scale
  /\ returned.payload.alert = TempAlert

\* the file read back by c has no row, or none inside the window of c
EmptySubset(c) ==
  IF c.selected_range = "all" THEN RowsRead(c) = << >>
  ELSE \A k \in 1..Len(RowsRead(c)) :
         \/ RowsRead(c)[k].Timestamp = << >>
         \/ RowsRead(c)[k].Timestamp[1] + IntOf(c.selected_range) * 60 * SubSec
              < c.now

\* C6: when the window of the file read back is empty, the returned payload
\* is the empty result: "--" for every statistic, no series, no alert.
C6_EmptySubsetEmptyPayload ==
  (returned.pc = "done" /\ returned.result = "payload" /\ EmptySubset(returned))
    => /\ returned.payload.figure = << >>
       /\ returned.payload.current_temp = <<"--", 0>>
       /\ returned.payload.current_hum = <<"--", 0>>
       /\ returned.payload.avg_temp = <<"--", 0>>
       /\ returned.payload.avg_hum = <<"--", 0>>
       /\ returned.payload.max_temp = <<"--", 0>>
       /\ returned.payload.min_temp = <<"--", 0>>
       /\ returned.payload.alert = ""

\* the empty result for a file that has rows, all outside the window, the
\* last of them above the thresholds
C6_Witness ==
  /\ returned.pc = "done"
  /\ returned.result = "payload"
  /\ returned.selected_range # "all"
  /\ Len(RowsRead(returned)) >= 2
  /\ RowsRead(returned)[Len(RowsRead(returned))].Temperature > 35 * Scale
  /\ returned.payload.figure = << >>
  /\ returned.payload.current_temp = <<"--", 0>>

\* C7: read_serial_data returns a reading exactly when the call appended one
\* row, and that row carries the two values returned and the call's
\* timestamp; when it returns (None, None) the call appended nothing.
C7_AcquireAppendsAtomically ==
  \A c \in AfterAcquire :
    /\ c.appended \in {0, 1}
    /\ c.reading # << >> <=> c.appended = 1
    /\ c.reading # << >> =>
         /\ c.at \in 1..Len(csv.lines)
         /\ csv.lines[c.at].kind = "row"
         /\ csv.lines[c.at].stamp = c.timestamp
         /\ ParseFloat(csv.lines[c.at].temp) = c.reading[1]
         /\ ParseFloat(csv.lines[c.at].hum) = c.reading[2]

\* a reading from the port with different temperature and humidity was
\* returned and is in the file
C7_Witness ==
  /\ ser = "open"
  /\ returned.pc = "done"
  /\ returned.reading # << >>
  /\ returned.reading[1] # returned.reading[2]
  /\ returned.appended = 1
  /\ returned.consumed = 2

IsPrefix(p, q) == Len(p) <= Len(q) /\ SubSeq(q, 1, Len(p)) = p

\* C8: the file is append-only: from startup on, every step leaves the
\* lines the file held in place (startup leaves an existing file as it is),
\* and an existing file goes on existing.
C8_AppendOnly ==
  [][/\ IsPrefix(csv.lines, csv'.lines)
     /\ csv.exists => csv'.exists]_vars

\* a row that was in the file before startup is still there, after the
\* header, with a row appended behind it
C8_Witness ==
  /\ Len(csv.lines) >= 3
  /\ csv.lines[1] = Header
  /\ csv.lines[2] = OldRow
  /\ appends # << >>

\* pd.read_csv(CSV_FILE) of the file as it is now
ReadAll == IF Len(csv.lines) = 0 THEN << >> ELSE ReadCsv(csv.lines)

\* C9: reading the file back yields one row per appended reading, in append
\* order, with the values appended and the timestamp appended, to the second
\* (the rows the file held before startup come first).
C9_RoundTrip ==
  /\ Len(ReadAll) >= Len(appends)
  /\ \A k \in 1..Len(appends) :
       LET r == ReadAll[Len(ReadAll) - Len(appends) + k]
       IN /\ r.Temperature = appends[k][2]
          /\ r.Humidity = appends[k][3]
          /\ r.Timestamp # << >>
          /\ r.Timestamp[1] \div SubSec = appends[k][1][1]

StartedWithoutData == ~(Len(csv.lines) >= 2 /\ csv.lines[2] = OldRow)

\* C11: when the file was absent or empty at the start, every invocation run
\* live returns without an error, before and after readings are appended,
\* and as long as no reading was acquired it returns the empty statistics
C11_EmptyLogIsNoData ==
  (returned.pc = "done" /\ returned.live_mode # "off" /\ StartedWithoutData) =>
    /\ returned.result = "payload"
    /\ appends = << >> => returned.payload = EmptyPayload

\* ---------------------------------------------------------------- C12
\* The parsing of one line, on every line over a small alphabet: the program
\* is serving with the port open and the line waiting in the buffer, and the
\* timer drives update_dashboard over it.
MaxLineLen == 5

\* the characters of the lines: a sign, a digit, the point, a blank, a letter
ParseAlphabet == {"-", "5", ".", " ", "x"}

ParseLines == UNION {[1..n -> ParseAlphabet] : n \in 0..MaxLineLen}

InitParse ==
  /\ script = 3
  /\ RAILWAY = FALSE
  /\ port_opens = TRUE
  /\ main = "serving"
  /\ ser = "open"
  /\ csv = [exists |-> TRUE, lines |-> <<Header>>]
  /\ \E line \in ParseLines : in_waiting = <<line>>
  /\ arrived = <<"on">>
  /\ clock = StartClock
  /\ live_mode = "on"
  /\ time_filter = "all"
  /\ n_intervals = 0
  /\ shown = BlankPayload
  /\ calls = [i \in 1..MaxCalls |-> IdleCall]
  /\ returned = IdleCall
  /\ sent = 1
  /\ advances = 0
  /\ invocations = 0
  /\ appends = << >>

NextParse ==
  \/ TimerFire
  \/ \E i \in 1..MaxCalls : ReadLine(i)
  \/ \E i \in 1..MaxCalls : PollEmpty(i)
  \/ \E i \in 1..MaxCalls : WriteRow(i)
  \/ \E i \in 1..MaxCalls : ReadBack(i)

SpecParse == InitParse /\ [][NextParse]_vars

\* length of the numeric token the claim describes at position i: an integer
\* or a decimal, with its sign when it has one; 0 when there is none
SignedNumberAt(s, i) ==
  LET sg == IF i <= Len(s) /\ s[i] \in {"-", "+"} THEN 1 ELSE 0
      d1 == DigitRun(s, i + sg)
      dot == i + sg + d1
      d2 == IF dot <= Len(s) /\ s[dot] = "." THEN DigitRun(s, dot + 1) ELSE 0
      n == IF d2 > 0 THEN d1 + 1 + d2 ELSE d1
  IN IF n > 0 THEN sg + n ELSE 0

RECURSIVE NumericTokensFrom(_, _)
NumericTokensFrom(s, i) ==
  IF i > Len(s) THEN << >>
  ELSE LET n == SignedNumberAt(s, i)
       IN IF n > 0
          THEN <<SubSeq(s, i, i + n - 1)>> \o NumericTokensFrom(s, i + n)
          ELSE NumericTokensFrom(s, i + 1)

\* the reading the claim describes for a line: the first two numeric tokens
\* with their signs, none when there are fewer than two
SignedReading(line) ==
  LET t == NumericTokensFrom(line, 1)
  IN IF Len(t) < 2 THEN << >> ELSE <<FloatOf(t[1]), FloatOf(t[2])>>

\* C12: the reading parsed from a line is its first two numeric tokens
\* (integer or decimal), left to right, each with the sign it carries; a line
\* with fewer than two numeric tokens gives no reading
C12_SignedTokensParsed ==
  [][\A i \in 1..MaxCalls :
       (calls[i].pc \in {"start", "poll"} /\
        calls'[i].consumed = calls[i].consumed + 1) =>
         calls'[i].reading = SignedReading(Head(in_waiting))]_vars

\* ---------------------------------------------------------------- C13
\* C13: a poll takes the waiting lines one at a time from the front; a line
\* that is not valid is dropped and the file is left alone; at the first valid
\* line the poll stops: that reading is written and returned and the lines
\* behind it stay in the buffer; when no line is valid the buffer is emptied,
\* nothing is returned and the file is unchanged
C13_PollStopsAtFirstValid ==
  [][/\ (in_waiting' # in_waiting /\ Len(in_waiting') <= Len(in_waiting)) =>
          /\ in_waiting # << >>
          /\ in_waiting' = Tail(in_waiting)
          /\ csv' = csv
          /\ \E i \in 1..MaxCalls :
               /\ calls[i].pc \in {"start", "poll"}
               /\ calls[i].appended = 0
               /\ calls'[i].consumed = calls[i].consumed + 1
               /\ LET r == ParseLine(Head(in_waiting))
                  IN IF r = << >>
                     THEN calls'[i].pc = "poll" /\ calls'[i].reading = << >>
                     ELSE calls'[i].pc = "write" /\ calls'[i].reading = r
     /\ \A i \in 1..MaxCalls :
          (calls[i].pc = "write" /\ ser = "open" /\ calls'[i] # calls[i]) =>
             /\ csv'.lines = Append(csv.lines,
                                    FormatRow(calls[i].timestamp,
                                              calls[i].reading[1],
                                              calls[i].reading[2]))
             /\ calls'[i].pc = "readback"
             /\ calls'[i].reading = calls[i].reading
             /\ calls'[i].appended = 1
             /\ in_waiting' = in_waiting
     /\ \A i \in 1..MaxCalls :
          (calls[i].pc = "readback" /\ calls[i].reading # << >> /\
           ser = "open" /\ calls'[i] # calls[i]) =>
             /\ returned'.reading = calls[i].reading
             /\ csv' = csv
             /\ in_waiting' = in_waiting
     /\ \A i \in 1..MaxCalls :
          (calls[i].pc \in {"start", "poll"} /\ calls[i].live_mode # "off" /\
           ser = "open" /\ calls'[i].pc = "readback") =>
             /\ in_waiting = << >>
             /\ in_waiting' = << >>
             /\ calls'[i].reading = << >>
             /\ calls'[i].appended = 0
             /\ csv' = csv]_vars

\* a reading was returned while another valid line, with other values, is
\* still waiting behind it
C13_Witness ==
  /\ returned.pc = "done"
  /\ returned.appended = 1
  /\ returned.consumed = 1
  /\ in_waiting # << >>
  /\ ParseLine(in_waiting[1]) # << >>
  /\ ParseLine(in_waiting[1]) # returned.reading

\* ---------------------------------------------------------------- C14
\* the invocations of update_dashboard that have started and not returned
InFlight == {i \in 1..MaxCalls : calls[i].pc # "idle"}

\* C14: invocations of update_dashboard never overlap: at most one is
\* executing at any moment, so the file has one writer at a time, and an
\* invocation that appended reads back a file whose last row is its own
C14_StrictlySequential ==
  /\ Cardinality(InFlight) <= 1
  /\ (returned.pc = "done" /\ returned.appended = 1 /\
      returned.result = "payload") =>
        returned.at = Len(returned.df_lines)

\* ---------------------------------------------------------------- C15
\* every invocation, in flight or returned last
AllCalls == {calls[i] : i \in 1..MaxCalls} \cup {returned}

\* C15 as stated: after a pause a live invocation appends at most one row,
\* and no row is ever written from a line the device sent during the pause
C15_NoBackfillAfterPause ==
  /\ \A c \in AllCalls : c.appended <= 1
  /\ \A k \in 1..Len(appends) : appends[k][4] # "off"

\* C15, amended: after a pause a live invocation appends at most one row,
\* as any other; the lines the device sent during the pause stay in the
\* buffer and leave it only one at a time, from the front, read by an
\* invocation run live, and a valid one is then written by that invocation
C15_ResumeReadsBufferedLines ==
  [][/\ \A i \in 1..MaxCalls : calls'[i].appended <= 1
     /\ Len(arrived') < Len(arrived) =>
          /\ arrived' = Tail(arrived)
          /\ \E i \in 1..MaxCalls :
               /\ calls[i].live_mode # "off"
               /\ calls'[i].consumed = calls[i].consumed + 1
               /\ ParseLine(Head(in_waiting)) # << >> =>
                    /\ calls'[i].pc = "write"
                    /\ calls'[i].sent_in = Head(arrived)
     /\ appends' # appends =>
          \E i \in 1..MaxCalls :
            /\ calls[i].pc = "write"
            /\ calls[i].live_mode # "off"
            /\ calls'[i].appended = 1
            /\ appends' = Append(appends, <<calls[i].timestamp,
                                            calls[i].reading[1],
                                            calls[i].reading[2],
                                            calls[i].sent_in>>)]_vars

\* the invocation that switched back to live wrote a line sent during the
\* pause, and another line is still waiting
C15_Witness ==
  /\ returned.pc = "done"
  /\ returned.trigger = "live-mode"
  /\ returned.live_mode = "on"
  /\ returned.sent_in = "off"
  /\ returned.appended = 1
  /\ in_waiting # << >>

\* ---------------------------------------------------------------- C16
\* C16: an invocation run live that ends in an error leaves the file as it
\* was when the invocation started: it has appended nothing and consumed
\* nothing; an invocation that appended returns a payload
C16_FailedTickLeavesNoTrace ==
  (returned.pc = "done" /\ returned.live_mode # "off" /\
   returned.result = "error") =>
     /\ returned.appended = 0
     /\ returned.reading = << >>

\* ---------------------------------------------------------------- C17
\* C17: the timestamps of the rows the program appended never decrease along
\* the file, also when several invocations are in flight (the clock of the
\* model never goes back and nothing else writes the file)
C17_TimestampsNonDecreasing ==
  \A k \in 1..(Len(appends) - 1) : appends[k][1][1] <= appends[k + 1][1][1]

\* ---------------------------------------------------------------- C18
\* C18 as stated: only invocations started by the timer acquire a reading
\* or append a row, so the file grows by at most one row per firing of the
\* timer; an invocation started by a change of the time filter or of the
\* live-mode switch reads nothing and appends nothing
C18_OnlyTimerTicksAppend ==
  /\ Len(appends) <= n_intervals
  /\ \A c \in AllCalls :
       c.trigger \in {"time-filter", "live-mode"} =>
         c.appended = 0 /\ c.consumed = 0 /\ c.reading = << >>

\* C18, amended: once the program serves, the file changes only when an
\* invocation of update_dashboard run live appends its one row, whichever
\* input started it (timer, time filter, live-mode switch); the file grows
\* by at most one row per invocation
C18_OnlyLiveInvocationsAppend ==
  [][/\ Len(appends') <= invocations'
     /\ (csv' # csv /\ main = "serving") =>
          \E i \in 1..MaxCalls :
            /\ calls[i].pc = "write"
            /\ calls[i].live_mode # "off"
            /\ calls[i].trigger \in {"interval", "time-filter", "live-mode"}
            /\ calls[i].appended = 0
            /\ calls'[i].appended = 1
            /\ csv'.lines = Append(csv.lines, csv'.lines[Len(csv'.lines)])]_vars

\* a change of the time filter alone, with no firing of the timer, has
\* appended a row
C18_Witness ==
  /\ returned.pc = "done"
  /\ returned.trigger = "time-filter"
  /\ returned.appended = 1
  /\ n_intervals = 0
  /\ Len(appends) = 1

\* ---------------------------------------------------------------- C19
\* C19: an invocation run live that acquired a reading returns a payload
\* that is not empty and whose current temperature and humidity are that
\* reading, whatever the time filter
C19_CurrentIsAcquired ==
  (returned.pc = "done" /\ returned.live_mode # "off" /\
   returned.reading # << >>) =>
     /\ returned.result = "payload"
     /\ returned.payload.figure # << >>
     /\ returned.payload.current_temp = Num(returned.reading[1])
     /\ returned.payload.current_hum = Num(returned.reading[2])

\* ---------------------------------------------------------------- C20
\* C20: with no serial handle every invocation run live appends exactly one
\* row, of temperature within [20, 30] and humidity within [40, 60], and the
\* payload it returns carries no alert, whatever rows the file held before
C20_FallbackNeverAlerts ==
  (ser = "None" /\ returned.pc = "done" /\ returned.live_mode # "off") =>
    /\ returned.appended = 1
    /\ returned.at \in 1..Len(csv.lines)
    /\ LET row == csv.lines[returned.at]
       IN /\ row.kind = "row"
          /\ SimTempLow * Scale <= ParseFloat(row.temp)
          /\ ParseFloat(row.temp) <= SimTempHigh * Scale
          /\ SimHumLow * Scale <= ParseFloat(row.hum)
          /\ ParseFloat(row.hum) <= SimHumHigh * Scale
    /\ returned.result = "payload" => returned.payload.alert = NoAlert

\* a simulated tick over a file that held a row above both thresholds: the
\* row is in the statistics and the payload carries no alert
C20_Witness ==
  /\ ser = "None"
  /\ returned.pc = "done"
  /\ returned.live_mode # "off"
  /\ returned.result = "payload"
  /\ returned.payload.max_temp = Num(ParseFloat(OldRow.temp))
  /\ ParseFloat(OldRow.temp) > TempThreshold * Scale
  /\ returned.payload.alert = NoAlert

====
